---- MODULE Spec2Model ----
(***************************************************************************)
(* House-effect estimation, correction and weighted averaging of polls     *)
(* (kjetilbk/valg2025).  The engine is a library of pure functions; the    *)
(* state machine is a caller that parses a list of polls and then runs the *)
(* pipeline of src/src/analysis.ts: estimate house effects, apply them,    *)
(* average the adjusted polls.                                             *)
(*                                                                         *)
(* Numbers.  JavaScript numbers are modelled as exact rationals            *)
(* [n |-> numerator, d |-> denominator] in lowest terms with d > 0; the    *)
(* value NaN is [n |-> 0, d |-> 0].  Floating-point rounding is not        *)
(* modelled.  A missing map entry (undefined) is a key absent from the     *)
(* DOMAIN of the map.  Timestamps are whole days (getTime() divided by     *)
(* the 86 400 000 ms of a day).                                            *)
(***************************************************************************)
EXTENDS Integers, Sequences, FiniteSets, TLC

VARIABLES
    polls,          \* the parsed polls, the input of the engine
    benchmarks,     \* the benchmark of each poll, as the last estimator computed it
    houseEffects,   \* the house-effect map of the last estimator call
    adjustedPolls,  \* the result of applyHouseEffects
    average,        \* the result of calculateCurrentAverage
    averages,       \* the result of calculatePollingAverages
    standings,      \* the result of getCurrentStandings
    currentDate,    \* the window date of the loop of calculatePollingAverages
    pc,             \* the caller's position in the pipeline
    args            \* the arguments the caller has passed so far

vars == <<polls, benchmarks, houseEffects, adjustedPolls, average, averages, standings,
          currentDate, pc, args>>

(***************************************************************************)
(* Rational arithmetic with NaN                                            *)
(***************************************************************************)
Abs(x) == IF x < 0 THEN -x ELSE x

RECURSIVE Gcd(_, _)
Gcd(a, b) == IF b = 0 THEN a ELSE Gcd(b, a % b)

NaN == [n |-> 0, d |-> 0]

\* Number.POSITIVE_INFINITY; -Infinity is [n |-> -1, d |-> 0]
Infinity == [n |-> 1, d |-> 0]

isNaN(x) == x.d = 0 /\ x.n = 0

isInf(x) == x.d = 0 /\ x.n # 0

Sign(k) == IF k < 0 THEN -1 ELSE IF k > 0 THEN 1 ELSE 0

Rat(n, d) ==
    IF d = 0 THEN [n |-> Sign(n), d |-> 0]
    ELSE LET g == Gcd(Abs(n), Abs(d))
             s == IF d < 0 THEN -1 ELSE 1
         IN  [n |-> s * (n \div g), d |-> Abs(d) \div g]

Num(k) == [n |-> k, d |-> 1]

Zero == Num(0)

Add(x, y) ==
    IF isNaN(x) \/ isNaN(y) THEN NaN
    ELSE IF isInf(x) THEN (IF isInf(y) /\ y.n # x.n THEN NaN ELSE x)
    ELSE IF isInf(y) THEN y
    ELSE Rat(x.n * y.d + y.n * x.d, x.d * y.d)

Neg(x) == [n |-> -x.n, d |-> x.d]

Sub(x, y) == Add(x, Neg(y))

Mul(x, y) ==
    IF isNaN(x) \/ isNaN(y) THEN NaN
    ELSE IF isInf(x) \/ isInf(y) THEN [n |-> Sign(x.n) * Sign(y.n), d |-> 0]
    ELSE Rat(x.n * y.n, x.d * y.d)

\* x / y as IEEE 754 does it: 0/0 and Infinity/Infinity are NaN, x/0 is an
\* infinity and x/Infinity is 0.
Div(x, y) ==
    IF isNaN(x) \/ isNaN(y) THEN NaN
    ELSE IF isInf(y) THEN (IF isInf(x) THEN NaN ELSE Zero)
    ELSE IF isInf(x) THEN [n |-> x.n * (IF y.n < 0 THEN -1 ELSE 1), d |-> 0]
    ELSE Rat(x.n * y.d, x.d * y.n)

Less(x, y) ==
    /\ ~isNaN(x)
    /\ ~isNaN(y)
    /\ x # y
    /\ IF isInf(x) THEN x.n < 0
       ELSE IF isInf(y) THEN y.n > 0
       ELSE x.n * y.d < y.n * x.d

\* Math.max(a, b)
Max(x, y) == IF isNaN(x) \/ isNaN(y) THEN NaN ELSE IF Less(x, y) THEN y ELSE x

RECURSIVE reduceSum(_)
reduceSum(s) == IF s = <<>> THEN Zero ELSE Add(reduceSum(SubSeq(s, 1, Len(s) - 1)), s[Len(s)])

RECURSIVE halfToThe(_)
halfToThe(k) == IF k = 0 THEN Num(1) ELSE Mul(Rat(1, 2), halfToThe(k - 1))

\* x is a whole number >= 0: the exponents at which Math.pow(0.5, x) is rational
IsWhole(x) == x.d = 1 /\ x.n >= 0

\* Math.pow(0.5, x), for whole x, NaN and the infinities
pow05(x) ==
    IF isNaN(x) THEN NaN
    ELSE IF isInf(x) THEN (IF x.n > 0 THEN Zero ELSE Infinity)
    ELSE halfToThe(x.n)

(***************************************************************************)
(* Data model (src/src/types.ts)                                           *)
(***************************************************************************)
\* The party list; two of the ten parties of types.ts are kept.
PARTY_NAMES == <<"Ap", "Sp">>

Parties == {PARTY_NAMES[i] : i \in 1..Len(PARTY_NAMES)}

\* The result null of a function that returns a map or null.
Null == [null |-> TRUE]

EmptyMap == [c \in {} |-> Zero]

(***************************************************************************)
(* Rolling benchmark and house effects (houseEffects.ts, kept in           *)
(* src/src/combinedVisualization.ts from line 331)                         *)
(***************************************************************************)
DefaultWindowDays == 14

DefaultMinPolls == 5

ExpandedWindowDays == 28

MaxWindowDays == 42

\* Variant of filterWindow: only the polls of the target's own house are kept
filterWindowSameHouse(targetPoll, allPolls, days) ==
    SelectSeq(allPolls, LAMBDA poll : /\ Abs(poll.day - targetPoll.day) <= days
                                      /\ poll.house = targetPoll.house)

\* Variant of filterWindow: a poll exactly at the edge of the window is left out
filterWindowStrict(targetPoll, allPolls, days) ==
    SelectSeq(allPolls, LAMBDA poll : Abs(poll.day - targetPoll.day) < days)

\* allPolls.filter(poll => Math.abs(pollTime - targetTime) <= windowMs)
filterWindow(targetPoll, allPolls, days) ==
    SelectSeq(allPolls, LAMBDA poll : Abs(poll.day - targetPoll.day) <= days)

\* Variant of benchmarkWindowPolls: the window is never widened
benchmarkWindowPollsFixed(targetPoll, allPolls, windowDays, minPolls) ==
    filterWindow(targetPoll, allPolls, windowDays)

\* Variant of benchmarkWindowPolls: the last re-selection takes every poll
benchmarkWindowPollsUnbounded(targetPoll, allPolls, windowDays, minPolls) ==
    LET first == filterWindow(targetPoll, allPolls, windowDays)
        expanded == filterWindow(targetPoll, allPolls, ExpandedWindowDays)
    IN  IF Len(first) < minPolls
        THEN IF Len(expanded) < minPolls THEN allPolls ELSE expanded
        ELSE first

\* The polls the benchmark of targetPoll is computed from: the window, widened
\* to 28 and then to 42 days while it holds fewer than minPolls polls.
benchmarkWindowPolls(targetPoll, allPolls, windowDays, minPolls) ==
    LET first == filterWindow(targetPoll, allPolls, windowDays)
        expanded == filterWindow(targetPoll, allPolls, ExpandedWindowDays)
        widest == filterWindow(targetPoll, allPolls, MaxWindowDays)
    IN  IF Len(first) < minPolls
        THEN IF Len(expanded) < minPolls THEN widest ELSE expanded
        ELSE first

\* windowPolls.map(poll => poll.parties[party]).filter(val => val !== undefined && !isNaN(val))
definedValues(windowPolls, party) ==
    LET kept == SelectSeq(windowPolls,
                    LAMBDA poll : party \in DOMAIN poll.parties /\ ~isNaN(poll.parties[party]))
    IN  [i \in 1..Len(kept) |-> kept[i].parties[party]]

calculateBenchmarkForPoll(targetPoll, allPolls, windowDays, minPolls) ==
    LET windowPolls == benchmarkWindowPolls(targetPoll, allPolls, windowDays, minPolls)
    IN  IF Len(windowPolls) = 0 THEN Null
        ELSE [party \in {c \in Parties : Len(definedValues(windowPolls, c)) > 0} |->
                LET values == definedValues(windowPolls, party)
                IN  Div(reduceSum(values), Num(Len(values)))]

\* Variant of pollDeviations: the poll's value is subtracted from the benchmark
pollDeviationsReversed(poll, allPolls) ==
    LET benchmark == calculateBenchmarkForPoll(poll, allPolls, DefaultWindowDays, DefaultMinPolls)
    IN  IF benchmark = Null THEN EmptyMap
        ELSE [party \in {c \in Parties : c \in DOMAIN poll.parties /\ c \in DOMAIN benchmark} |->
                Sub(benchmark[party], poll.parties[party])]

\* The deviations of one poll from its benchmark (monthlyDeviations).
pollDeviations(poll, allPolls) ==
    LET benchmark == calculateBenchmarkForPoll(poll, allPolls, DefaultWindowDays, DefaultMinPolls)
    IN  IF benchmark = Null THEN EmptyMap
        ELSE [party \in {c \in Parties : c \in DOMAIN poll.parties /\ c \in DOMAIN benchmark} |->
                Sub(poll.parties[party], benchmark[party])]

\* Variant of houseDeviations: only the first poll of the house that has a
\* deviation is used
houseDeviationsFirstOnly(housePolls, party) ==
    LET kept == SelectSeq(housePolls, LAMBDA pd : party \in DOMAIN pd.monthlyDeviations)
    IN  [i \in 1..(IF Len(kept) > 0 THEN 1 ELSE 0) |-> kept[i].monthlyDeviations[party]]

\* housePolls.map(poll => poll.monthlyDeviations?.[party]).filter(dev => dev !== undefined)
houseDeviations(housePolls, party) ==
    LET kept == SelectSeq(housePolls, LAMBDA pd : party \in DOMAIN pd.monthlyDeviations)
    IN  [i \in 1..Len(kept) |-> kept[i].monthlyDeviations[party]]

\* Variant of effectDivisor: one less than the number of deviations
effectDivisorLessOne(housePolls, deviations) ==
    IF Len(deviations) > 1 THEN Len(deviations) - 1 ELSE 1

\* Variant of effectDivisor: the number of polls of the house
effectDivisorAllPolls(housePolls, deviations) == Len(housePolls)

\* The divisor of a house's mean deviation: deviations.length
effectDivisor(housePolls, deviations) == Len(deviations)

calculateHouseEffects(allPolls) ==
    LET pollsWithDeviations ==
            [i \in 1..Len(allPolls) |->
                [house |-> allPolls[i].house,
                 monthlyDeviations |-> pollDeviations(allPolls[i], allPolls)]]
        houses == {allPolls[i].house : i \in 1..Len(allPolls)}
    IN  [house \in houses |->
            LET housePolls == SelectSeq(pollsWithDeviations, LAMBDA pd : pd.house = house)
            IN  [pollCount |-> Len(housePolls),
                 effect |->
                    [party \in {c \in Parties : Len(houseDeviations(housePolls, c)) > 0} |->
                        LET deviations == houseDeviations(housePolls, party)
                        IN  Div(reduceSum(deviations),
                                Num(effectDivisor(housePolls, deviations)))]]]


(***************************************************************************)
(* Time-decayed house effects (src/src/timeDecayedHouseEffects.ts)         *)
(***************************************************************************)
DefaultDecayHalfLifeDays == 30

DefaultDecayWindowDays == 21

\* poll.parties[party] used as a number: undefined becomes NaN in arithmetic
numberOf(poll, party) == IF party \in DOMAIN poll.parties THEN poll.parties[party] ELSE NaN

\* The polls the benchmark of allPolls[target] is computed from: the others
\* inside the window (poll !== targetPoll compares object identity, here the
\* position in allPolls), or the target alone when there are none.
decayWindowPolls(target, allPolls, windowDays) ==
    LET idx == {j \in 1..Len(allPolls) :
                    /\ Abs(allPolls[j].day - allPolls[target].day) <= windowDays
                    /\ j # target}
        others == SelectSeq([j \in 1..Len(allPolls) |-> [at |-> j, poll |-> allPolls[j]]],
                            LAMBDA e : e.at \in idx)
    IN  IF Len(others) = 0 THEN <<allPolls[target]>>
        ELSE [k \in 1..Len(others) |-> others[k].poll]

calculatePollHouseEffect(target, allPolls, windowDays) ==
    LET windowPolls == decayWindowPolls(target, allPolls, windowDays)
        benchmark == [party \in Parties |->
                        Div(reduceSum([k \in 1..Len(windowPolls) |-> numberOf(windowPolls[k], party)]),
                            Num(Len(windowPolls)))]
    IN  [party \in Parties |-> Sub(numberOf(allPolls[target], party), benchmark[party])]

\* Variant of decayWeight: every poll weighs the same
decayWeightUniform(ageDays, halfLife) == Num(1)

\* Math.pow(0.5, ageDays / decayHalfLifeDays)
decayWeight(ageDays, halfLife) == pow05(Div(Num(ageDays), halfLife))

\* Variant of aggregateWithDecay: the weighted sums are not divided by the
\* total weight
aggregateWithDecayUnnormalised(estimates) ==
    LET totalWeight == reduceSum([k \in 1..Len(estimates) |-> estimates[k].weight])
        weightedAgeSum == reduceSum([k \in 1..Len(estimates) |->
                                        Mul(Num(estimates[k].age), estimates[k].weight)])
    IN  [parties |-> [party \in Parties |->
                        reduceSum([k \in 1..Len(estimates) |->
                                      Mul(estimates[k].estimate[party], estimates[k].weight)])],
         effectiveAge |-> IF Less(Zero, totalWeight) THEN Div(weightedAgeSum, totalWeight) ELSE Zero,
         totalWeight |-> totalWeight]

aggregateWithDecay(estimates) ==
    LET totalWeight == reduceSum([k \in 1..Len(estimates) |-> estimates[k].weight])
        weightedAgeSum == reduceSum([k \in 1..Len(estimates) |->
                                        Mul(Num(estimates[k].age), estimates[k].weight)])
        sums == [party \in Parties |->
                    reduceSum([k \in 1..Len(estimates) |->
                                  Mul(estimates[k].estimate[party], estimates[k].weight)])]
    IN  [parties |-> IF Less(Zero, totalWeight)
                     THEN [party \in Parties |-> Div(sums[party], totalWeight)]
                     ELSE sums,
         effectiveAge |-> IF Less(Zero, totalWeight) THEN Div(weightedAgeSum, totalWeight) ELSE Zero,
         totalWeight |-> totalWeight]

RECURSIVE maxDay(_)
maxDay(allPolls) ==
    IF Len(allPolls) = 1 THEN allPolls[1].day
    ELSE LET m == maxDay(SubSeq(allPolls, 1, Len(allPolls) - 1))
             d == allPolls[Len(allPolls)].day
         IN  IF d > m THEN d ELSE m

calculateTimeDecayedHouseEffects(allPolls, decayHalfLifeDays, windowDays) ==
    LET houses == {allPolls[i].house : i \in 1..Len(allPolls)}
        mostRecentDate == maxDay(allPolls)
    IN  [house \in houses |->
            LET housePolls == SelectSeq([j \in 1..Len(allPolls) |-> [at |-> j, poll |-> allPolls[j]]],
                                        LAMBDA e : e.poll.house = house)
                estimates == [k \in 1..Len(housePolls) |->
                                [estimate |-> calculatePollHouseEffect(housePolls[k].at, allPolls, windowDays),
                                 weight |-> decayWeight(mostRecentDate - housePolls[k].poll.day,
                                                        decayHalfLifeDays),
                                 age |-> mostRecentDate - housePolls[k].poll.day]]
                aggregated == aggregateWithDecay(estimates)
            IN  [parties |-> aggregated.parties,
                 pollCount |-> Len(estimates),
                 effectiveAge |-> aggregated.effectiveAge,
                 totalWeight |-> aggregated.totalWeight,
                 effect |-> aggregated.parties]]

\* Every weight Math.pow(0.5, ageDays / halfLife) of the input is rational.
DecayWeightsExact(allPolls, halfLife) ==
    \A i \in 1..Len(allPolls) : IsWhole(Div(Num(maxDay(allPolls) - allPolls[i].day), halfLife))

(***************************************************************************)
(* Bias correction (src/src/houseEffectAdjustment.ts)                      *)
(***************************************************************************)
\* Variant of adjustmentOf: the effect is recorded with its own sign
adjustmentOfUnnegated(effect) == effect

\* adjustments[party] = -effect
adjustmentOf(effect) == Neg(effect)

\* Variant of adjustedValue: the effect is added
adjustedValueAdded(value, effect) == Add(value, effect)

\* adjustedParties[party] = poll.parties[party] - effect
adjustedValue(value, effect) == Sub(value, effect)

\* Variant of houseEffectOf: a missing effect is read as the effect 0
houseEffectOrZero(effects, house, party) ==
    IF house \in DOMAIN effects /\ party \in DOMAIN effects[house].effect
    THEN [defined |-> TRUE, value |-> effects[house].effect[party]]
    ELSE [defined |-> TRUE, value |-> Zero]

\* houseEffect[party], read only if (houseEffect): the effect, if there is one
houseEffectOf(effects, house, party) ==
    IF house \in DOMAIN effects /\ party \in DOMAIN effects[house].effect
    THEN [defined |-> TRUE, value |-> effects[house].effect[party]]
    ELSE [defined |-> FALSE, value |-> Zero]

\* Variant of sourcePollOf: the results are listed from the last poll to the
\* first
sourcePollOfReversed(allPolls, i) == allPolls[Len(allPolls) + 1 - i]

\* polls.map((poll) => ...): result i is made from poll i
sourcePollOf(allPolls, i) == allPolls[i]

applyHouseEffects(allPolls, effects) ==
    [i \in 1..Len(allPolls) |->
        LET poll == sourcePollOf(allPolls, i)
            adjusted == {party \in Parties :
                            /\ houseEffectOf(effects, poll.house, party).defined
                            /\ party \in DOMAIN poll.parties}
        IN  [house |-> poll.house,
             day |-> poll.day,
             parties |-> [party \in DOMAIN poll.parties |->
                            IF party \in adjusted
                            THEN adjustedValue(poll.parties[party],
                                               houseEffectOf(effects, poll.house, party).value)
                            ELSE poll.parties[party]],
             originalParties |-> poll.parties,
             adjustments |-> [party \in adjusted |->
                                adjustmentOf(houseEffectOf(effects, poll.house, party).value)]]]

\* Variant of partiesAfterApply: adjustedParties is the poll's own parties
\* object, so the corrected values are written into the poll handed in
partiesAfterApplyShared(poll, adjustedParties) == adjustedParties

\* const adjustedParties = { ...poll.parties }: the corrected values are
\* written to a copy, and the poll handed in keeps its values
partiesAfterApply(poll, adjustedParties) == poll.parties

\* The caller's polls after applyHouseEffects has returned
pollsAfterApply(allPolls, effects) ==
    [i \in 1..Len(allPolls) |->
        [allPolls[i] EXCEPT
            !.parties = partiesAfterApply(allPolls[i], applyHouseEffects(allPolls, effects)[i].parties)]]

(***************************************************************************)
(* Weighted averages (pollingAverages.ts, src/unnamed/part_006)            *)
(***************************************************************************)
DefaultLookbackDays == 14

DefaultHalfLife == 7

WeightingMethods == {"none", "linear", "exponential", "quadratic"}

\* Variant of linearWeight: the remaining days are not divided by the window
linearWeightUnscaled(pollAgeDays, maxDays) ==
    Max(Zero, Num(maxDays - pollAgeDays))

\* Variant of linearWeight: the weight reaches zero a day after the window
linearWeightInclusive(pollAgeDays, maxDays) ==
    Max(Zero, Div(Num(maxDays + 1 - pollAgeDays), Num(maxDays + 1)))

linearWeight(pollAgeDays, maxDays) ==
    Max(Zero, Div(Num(maxDays - pollAgeDays), Num(maxDays)))

\* Variant of calculateWeight: the exponential scheme divides the half-life by
\* the age
calculateWeightSwapped(pollAgeDays, method, maxDays, halfLife) ==
    CASE method = "none" -> Num(1)
      [] method = "linear" -> linearWeight(pollAgeDays, maxDays)
      [] method = "exponential" -> pow05(Div(halfLife, Num(pollAgeDays)))
      [] method = "quadratic" -> Mul(linearWeight(pollAgeDays, maxDays), linearWeight(pollAgeDays, maxDays))
      [] OTHER -> Num(1)

calculateWeight(pollAgeDays, method, maxDays, halfLife) ==
    CASE method = "none" -> Num(1)
      [] method = "linear" -> linearWeight(pollAgeDays, maxDays)
      [] method = "exponential" -> pow05(Div(Num(pollAgeDays), halfLife))
      [] method = "quadratic" -> Mul(linearWeight(pollAgeDays, maxDays), linearWeight(pollAgeDays, maxDays))
      [] OTHER -> Num(1)

\* pollsWithWeights.map(...).filter(item => item.value !== undefined && !Number.isNaN(item.value))
pollValues(pollsWithWeights, party) ==
    LET kept == SelectSeq(pollsWithWeights,
                    LAMBDA pw : party \in DOMAIN pw.poll.parties /\ ~isNaN(pw.poll.parties[party]))
    IN  [i \in 1..Len(kept) |-> [value |-> kept[i].poll.parties[party], weight |-> kept[i].weight]]

\* Variant of totalWeightOf: the weights of all polls of the window are summed
totalWeightOfAllPolls(items, pollsWithWeights) ==
    reduceSum([i \in 1..Len(pollsWithWeights) |-> pollsWithWeights[i].weight])

\* pollValues.reduce((sum, item) => sum + item.weight, 0)
totalWeightOf(items, pollsWithWeights) ==
    reduceSum([i \in 1..Len(items) |-> items[i].weight])

\* new Set(array) read back with Array.from: each element once, in the order
\* of its first occurrence
RECURSIVE uniqueInOrder(_)
uniqueInOrder(s) ==
    IF Len(s) = 0 THEN s
    ELSE LET rest == uniqueInOrder(SubSeq(s, 1, Len(s) - 1))
         IN  IF \E k \in 1..Len(rest) : rest[k] = s[Len(s)] THEN rest
             ELSE Append(rest, s[Len(s)])

\* Variant of housesOf: the house of every poll, repeated as often as it polls
housesOfEveryPoll(windowPolls) ==
    [i \in 1..Len(windowPolls) |-> windowPolls[i].house]

\* Array.from(new Set(polls.map((p) => p.house)))
housesOf(windowPolls) ==
    uniqueInOrder([i \in 1..Len(windowPolls) |-> windowPolls[i].house])

calculateAverageForPolls(windowPolls, parsedDate, weighting, maxDays, halfLife) ==
    LET houses == housesOf(windowPolls)
        pollsWithWeights ==
            [i \in 1..Len(windowPolls) |->
                [poll |-> windowPolls[i],
                 weight |-> calculateWeight(parsedDate - windowPolls[i].day, weighting, maxDays, halfLife)]]
    IN  [parsedDate |-> parsedDate,
         pollCount |-> Len(windowPolls),
         parties |->
            [party \in {c \in Parties : Len(pollValues(pollsWithWeights, c)) > 0} |->
                LET items == pollValues(pollsWithWeights, party)
                    weightedSum == reduceSum([i \in 1..Len(items) |-> Mul(items[i].value, items[i].weight)])
                    totalWeight == totalWeightOf(items, pollsWithWeights)
                IN  Div(weightedSum, totalWeight)],
         houses |-> houses]

\* [...adjustedPolls].sort((a, b) => b.parsedDate.getTime() - a.parsedDate.getTime()):
\* a stable sort, newest first
RECURSIVE sortNewestFirst(_)
sortNewestFirst(s) ==
    IF Len(s) = 0 THEN s
    ELSE LET rest == sortNewestFirst(SubSeq(s, 1, Len(s) - 1))
             x == s[Len(s)]
             before == SelectSeq(rest, LAMBDA p : p.day >= x.day)
             after == SelectSeq(rest, LAMBDA p : p.day < x.day)
         IN  before \o <<x>> \o after

\* Variant of isRecent: a poll dated exactly at the cutoff is left out
isRecentStrict(poll, cutoffDate) == poll.day > cutoffDate

\* [...adjustedPolls].sort(...): the copy is sorted, and the array handed in
\* keeps its order
arrayAfterSort(array, sorted) == array

\* poll.parsedDate >= cutoffDate
isRecent(poll, cutoffDate) == poll.day >= cutoffDate

\* The polls calculateCurrentAverage averages
recentPollsOf(allAdjusted, days) ==
    LET sortedPolls == sortNewestFirst(allAdjusted)
        latestDate == sortedPolls[1].day
        cutoffDate == latestDate - days
    IN  SelectSeq(sortedPolls, LAMBDA poll : isRecent(poll, cutoffDate))

calculateCurrentAverage(allAdjusted, days, weighting, halfLife) ==
    IF Len(allAdjusted) = 0 THEN Null
    ELSE LET recentPolls == recentPollsOf(allAdjusted, days)
         IN  IF Len(recentPolls) = 0 THEN Null
             ELSE calculateAverageForPolls(recentPolls, sortNewestFirst(allAdjusted)[1].day,
                                           weighting, days, halfLife)

\* [...adjustedPolls].sort((a, b) => a.parsedDate.getTime() - b.parsedDate.getTime()):
\* a stable sort, oldest first
RECURSIVE sortOldestFirst(_)
sortOldestFirst(s) ==
    IF Len(s) = 0 THEN s
    ELSE LET rest == sortOldestFirst(SubSeq(s, 1, Len(s) - 1))
             x == s[Len(s)]
             before == SelectSeq(rest, LAMBDA p : p.day <= x.day)
             after == SelectSeq(rest, LAMBDA p : p.day > x.day)
         IN  before \o <<x>> \o after

DefaultTimeSpanDays == 14

DefaultStepDays == 7

\* Variant of windowPollsAt: a poll dated exactly at the start of the window
\* is left out
windowPollsAtStrict(sortedPolls, windowEnd, timeSpanDays) ==
    SelectSeq(sortedPolls,
              LAMBDA poll : poll.day > windowEnd - timeSpanDays /\ poll.day <= windowEnd)

\* sortedPolls.filter((poll) => poll.parsedDate >= windowStart &&
\* poll.parsedDate <= windowEnd)
windowPollsAt(sortedPolls, windowEnd, timeSpanDays) ==
    SelectSeq(sortedPolls,
              LAMBDA poll : poll.day >= windowEnd - timeSpanDays /\ poll.day <= windowEnd)

\* Variant of actualEndDateOf: the end date handed in, whatever the latest poll
actualEndDateGiven(latestDate, endDate) == endDate

\* endDate > latestDate ? latestDate : endDate
actualEndDateOf(latestDate, endDate) == IF endDate > latestDate THEN latestDate ELSE endDate

\* One iteration of the while loop: the averages after the window that ends
\* on windowEnd
averagesAfterWindow(sortedPolls, soFar, windowEnd, timeSpanDays) ==
    LET windowPolls == windowPollsAt(sortedPolls, windowEnd, timeSpanDays)
    IN  IF Len(windowPolls) > 0
        THEN Append(soFar, calculateAverageForPolls(windowPolls, windowEnd, "none",
                                                    DefaultLookbackDays, Num(DefaultHalfLife)))
        ELSE soFar

\* The iterations of the while loop of calculatePollingAverages from
\* fromDate on: one average per window that holds a poll
RECURSIVE averagesFrom(_, _, _, _, _)
averagesFrom(sortedPolls, fromDate, actualEndDate, timeSpanDays, stepDays) ==
    IF fromDate > actualEndDate THEN <<>>
    ELSE averagesAfterWindow(sortedPolls, <<>>, fromDate, timeSpanDays) \o
         averagesFrom(sortedPolls, fromDate + stepDays, actualEndDate, timeSpanDays, stepDays)

calculatePollingAverages(allAdjusted, timeSpanDays, stepDays, endDate) ==
    LET sortedPolls == sortOldestFirst(allAdjusted)
    IN  IF Len(sortedPolls) = 0 THEN <<>>
        ELSE LET earliestDate == sortedPolls[1].day
                 latestDate == sortedPolls[Len(sortedPolls)].day
                 actualEndDate == actualEndDateOf(latestDate, endDate)
             IN  averagesFrom(sortedPolls, earliestDate + timeSpanDays, actualEndDate,
                              timeSpanDays, stepDays)

\* currentAverage.parties[party] || 0: a missing value, NaN and zero give 0
percentageOf(currentAverage, party) ==
    IF party \notin DOMAIN currentAverage.parties THEN Zero
    ELSE IF isNaN(currentAverage.parties[party]) THEN Zero
    ELSE currentAverage.parties[party]

\* Variant of isListed: a category at zero is listed too
isListedFromZero(standing) == ~Less(standing.percentage, Zero)

\* .filter((s) => s.percentage > 0)
isListed(standing) == Less(Zero, standing.percentage)

\* standings.sort((a, b) => b.percentage - a.percentage): a stable sort,
\* highest first
RECURSIVE sortHighestFirst(_)
sortHighestFirst(s) ==
    IF Len(s) = 0 THEN s
    ELSE LET rest == sortHighestFirst(SubSeq(s, 1, Len(s) - 1))
             x == s[Len(s)]
             before == SelectSeq(rest, LAMBDA t : ~Less(t.percentage, x.percentage))
             after == SelectSeq(rest, LAMBDA t : Less(t.percentage, x.percentage))
         IN  before \o <<x>> \o after

\* The houses in the order of Array.prototype.sort()
HouseOrder == <<"A", "B">>

\* currentAverage.houses.sort()
sortHouses(houses) ==
    SelectSeq(HouseOrder, LAMBDA h : \E i \in 1..Len(houses) : houses[i] = h)

getCurrentStandings(allAdjusted, days, sortByPercentage, weighting, halfLife) ==
    LET currentAverage == calculateCurrentAverage(allAdjusted, days, weighting, halfLife)
    IN  IF currentAverage = Null THEN Null
        ELSE LET listed == SelectSeq([k \in 1..Len(PARTY_NAMES) |->
                                        [party |-> PARTY_NAMES[k],
                                         percentage |-> percentageOf(currentAverage, PARTY_NAMES[k]),
                                         displayName |-> PARTY_NAMES[k]]],
                                     isListed)
             IN  [date |-> currentAverage.parsedDate,
                  lookbackDays |-> days,
                  pollCount |-> currentAverage.pollCount,
                  houses |-> sortHouses(currentAverage.houses),
                  standings |-> IF sortByPercentage THEN sortHighestFirst(listed) ELSE listed]

\* Every weight the average computes is rational
AverageWeightsExact(allAdjusted, days, weighting, halfLife) ==
    weighting = "exponential" /\ Len(allAdjusted) > 0 =>
        \A i \in 1..Len(recentPollsOf(allAdjusted, days)) :
            IsWhole(Div(Num(maxDay(allAdjusted) - recentPollsOf(allAdjusted, days)[i].day), halfLife))

(***************************************************************************)
(* The caller: polls as the parser delivers them (sorted by date), then    *)
(* the pipeline of analyzeNorwegianPolls and getCurrentStandings           *)
(***************************************************************************)
MaxPolls == 3

Houses == {"A", "B"}

Days == {0, 14, 56}

PartyMaps ==
    { [Ap |-> Num(25), Sp |-> Num(6)],
      [Ap |-> Num(29), Sp |-> Num(6)],
      [Sp |-> Num(6)] }

Observations == [house : Houses, day : Days, parties : PartyMaps]

\* polls.sort((a, b) => a.parsedDate.getTime() - b.parsedDate.getTime()) has run
SortedByDate(s) == \A i \in 1..Len(s) - 1 : s[i].day <= s[i + 1].day

PollInputs ==
    {s \in UNION {[1..n -> Observations] : n \in 0..MaxPolls} : SortedByDate(s)}

\* Longer inputs for the window cascade: house A reports Ap 29, house B Ap 25
MaxWindowPolls == 5

WindowDaySet == {0, 14, 28, 70}

WindowObservations ==
    {[house |-> h, day |-> d, parties |-> [Ap |-> Num(IF h = "A" THEN 29 ELSE 25), Sp |-> Num(6)]] :
        h \in Houses, d \in WindowDaySet}

WindowInputs ==
    {s \in UNION {[1..n -> WindowObservations] : n \in 4..MaxWindowPolls} : SortedByDate(s)}

\* The inputs of the time-decay tests: on each of the days 0, 30 and 60 a poll
\* of house A and then a poll of house B, and the prefixes of such lists
DecayDays == <<0, 0, 30, 30, 60, 60>>

DecaySlot(k) ==
    {[house |-> IF k % 2 = 1 THEN "A" ELSE "B", day |-> DecayDays[k],
      parties |-> [Ap |-> Num(ap), Sp |-> Num(6)]] :
        ap \in IF k % 2 = 1 THEN {25, 27, 29} ELSE {25, 27}}

RECURSIVE DecayLists(_)
DecayLists(n) ==
    IF n = 0 THEN {<<>>}
    ELSE {Append(s, o) : s \in DecayLists(n - 1), o \in DecaySlot(n)}

DecayInputs == UNION {DecayLists(n) : n \in 1..Len(DecayDays)}

\* Hand-written effect maps, as the tests of applyHouseEffects pass them
ManualEffects ==
    { [h \in {"A"} |-> [pollCount |-> 2, effect |-> [Ap |-> Num(2)]]],
      [h \in {"A", "B"} |-> IF h = "A" THEN [pollCount |-> 2, effect |-> [Ap |-> Num(2)]]
                                       ELSE [pollCount |-> 1, effect |-> EmptyMap]] }

\* Inputs of the averages: polls on the days 0, 7 and 21, so that ages of 0, 7,
\* 14 and 21 days occur
MaxAveragedPolls == 3

AverageDays == {0, 7, 21}

AveragePollInputs ==
    {s \in UNION {[1..n -> [house : Houses, day : AverageDays, parties : PartyMaps]] :
                    n \in 0..MaxAveragedPolls} : SortedByDate(s)}

\* Effect maps of the adjusted polls that are averaged: a hand-written one, and
\* one with the NaN that calculateTimeDecayedHouseEffects returns for a
\* category that a poll in the window lacks
AverageEffects ==
    {effects \in ManualEffects : DOMAIN effects = {"A"}} \cup
    { [h \in {"B"} |-> [pollCount |-> 1, effect |-> [Ap |-> NaN, Sp |-> Zero]]] }

DecayHalfLives == {Num(14), Num(DefaultDecayHalfLifeDays), Infinity}

LookbackDays == {DefaultLookbackDays}

HalfLives == {Num(DefaultHalfLife)}

\* The arguments of calculatePollingAverages; endDate defaults to the day of
\* the call
TimeSpans == {DefaultTimeSpanDays}

Steps == {DefaultStepDays}

EndDates == {14, 100}

\* Arguments of calculateBenchmarkForPoll: the defaults, a smaller minimum and
\* a window of eight weeks
BenchmarkWindowDays == {DefaultWindowDays, 56}

BenchmarkMinPolls == {2, DefaultMinPolls}

\* Arguments of calculatePollingAverages for the loop taken step by step: an
\* end date before the first window closes, one inside the polls and one after
SeriesTimeSpans == {7, DefaultTimeSpanDays}

SeriesSteps == {DefaultStepDays, 10}

SeriesEndDates == {7, 21, 100}

NoArgs == [estimator |-> "none", decayHalfLife |-> Zero, days |-> 0,
           weighting |-> "none", halfLife |-> Zero,
           timeSpanDays |-> 0, stepDays |-> 0, endDate |-> 0,
           sortByPercentage |-> TRUE, windowDays |-> 0, minPolls |-> 0]

InitWith(inputs) ==
    /\ polls \in inputs
    /\ benchmarks = <<>>
    /\ houseEffects = [h \in {} |-> 0]
    /\ adjustedPolls = <<>>
    /\ average = Null
    /\ averages = <<>>
    /\ standings = Null
    /\ currentDate = 0
    /\ pc = "parsed"
    /\ args = NoArgs

Init == InitWith(PollInputs)

CalculateHouseEffects ==
    /\ pc = "parsed"
    /\ benchmarks' = [i \in 1..Len(polls) |->
                        calculateBenchmarkForPoll(polls[i], polls, DefaultWindowDays, DefaultMinPolls)]
    /\ houseEffects' = calculateHouseEffects(polls)
    /\ pc' = "effects"
    /\ args' = [args EXCEPT !.estimator = "rolling"]
    /\ UNCHANGED <<polls, adjustedPolls, average, averages, standings, currentDate>>

\* calculateBenchmarkForPoll for every poll of the list, with a window and a
\* minimum of the caller's choice
CalculateBenchmarkForPoll ==
    /\ pc = "parsed"
    /\ \E windowDays \in BenchmarkWindowDays, minPolls \in BenchmarkMinPolls :
        /\ benchmarks' = [i \in 1..Len(polls) |->
                            calculateBenchmarkForPoll(polls[i], polls, windowDays, minPolls)]
        /\ args' = [args EXCEPT !.windowDays = windowDays, !.minPolls = minPolls]
    /\ pc' = "benchmarked"
    /\ UNCHANGED <<polls, houseEffects, adjustedPolls, average, averages, standings, currentDate>>

CalculateTimeDecayedHouseEffects ==
    /\ pc = "parsed"
    /\ \E halfLife \in DecayHalfLives :
        /\ DecayWeightsExact(polls, halfLife)
        /\ houseEffects' = calculateTimeDecayedHouseEffects(polls, halfLife, DefaultDecayWindowDays)
        /\ args' = [args EXCEPT !.estimator = "decayed", !.decayHalfLife = halfLife]
    /\ pc' = "effects"
    /\ UNCHANGED <<polls, benchmarks, adjustedPolls, average, averages, standings, currentDate>>

SupplyHouseEffects ==
    /\ pc = "parsed"
    /\ houseEffects' \in ManualEffects
    /\ pc' = "effects"
    /\ args' = [args EXCEPT !.estimator = "manual"]
    /\ UNCHANGED <<polls, benchmarks, adjustedPolls, average, averages, standings, currentDate>>

ApplyHouseEffects ==
    /\ pc = "effects"
    /\ adjustedPolls' = applyHouseEffects(polls, houseEffects)
    /\ polls' = pollsAfterApply(polls, houseEffects)
    /\ pc' = "adjusted"
    /\ UNCHANGED <<benchmarks, houseEffects, average, averages, args, standings, currentDate>>

CalculateCurrentAverageWith(lookbacks, halfLives) ==
    /\ pc = "adjusted"
    /\ \E days \in lookbacks, weighting \in WeightingMethods, halfLife \in halfLives :
        /\ AverageWeightsExact(adjustedPolls, days, weighting, halfLife)
        /\ average' = calculateCurrentAverage(adjustedPolls, days, weighting, halfLife)
        /\ args' = [args EXCEPT !.days = days, !.weighting = weighting, !.halfLife = halfLife]
    /\ adjustedPolls' = arrayAfterSort(adjustedPolls, sortNewestFirst(adjustedPolls))
    /\ pc' = "averaged"
    /\ UNCHANGED <<polls, benchmarks, houseEffects, averages, standings, currentDate>>

CalculateCurrentAverage == CalculateCurrentAverageWith(LookbackDays, HalfLives)

CalculatePollingAverages ==
    /\ pc = "adjusted"
    /\ \E timeSpanDays \in TimeSpans, stepDays \in Steps, endDate \in EndDates :
        /\ averages' = calculatePollingAverages(adjustedPolls, timeSpanDays, stepDays, endDate)
        /\ args' = [args EXCEPT !.timeSpanDays = timeSpanDays, !.stepDays = stepDays,
                                !.endDate = endDate]
    /\ adjustedPolls' = arrayAfterSort(adjustedPolls, sortOldestFirst(adjustedPolls))
    /\ pc' = "series"
    /\ UNCHANGED <<polls, benchmarks, houseEffects, average, standings, currentDate>>

GetCurrentStandings ==
    /\ pc = "adjusted"
    /\ \E days \in LookbackDays, sortByPercentage \in BOOLEAN,
          weighting \in WeightingMethods, halfLife \in HalfLives :
        /\ AverageWeightsExact(adjustedPolls, days, weighting, halfLife)
        /\ standings' = getCurrentStandings(adjustedPolls, days, sortByPercentage,
                                            weighting, halfLife)
        /\ args' = [args EXCEPT !.days = days, !.weighting = weighting,
                                !.halfLife = halfLife,
                                !.sortByPercentage = sortByPercentage]
    /\ adjustedPolls' = arrayAfterSort(adjustedPolls, sortNewestFirst(adjustedPolls))
    /\ pc' = "standings"
    /\ UNCHANGED <<polls, benchmarks, houseEffects, average, averages, currentDate>>

\* calculatePollingAverages, statement by statement: the call up to the loop
BeginPollingAverages ==
    /\ pc = "adjusted"
    /\ \E timeSpanDays \in SeriesTimeSpans, stepDays \in SeriesSteps, endDate \in SeriesEndDates :
        /\ args' = [args EXCEPT !.timeSpanDays = timeSpanDays, !.stepDays = stepDays,
                                !.endDate = endDate]
        /\ IF Len(adjustedPolls) = 0
           THEN /\ pc' = "series"
                /\ currentDate' = currentDate
           ELSE /\ pc' = "window"
                /\ currentDate' = sortOldestFirst(adjustedPolls)[1].day + timeSpanDays
    /\ averages' = <<>>
    /\ adjustedPolls' = arrayAfterSort(adjustedPolls, sortOldestFirst(adjustedPolls))
    /\ UNCHANGED <<polls, benchmarks, houseEffects, average, standings>>

\* The end date the loop runs to
LoopEndDate ==
    actualEndDateOf(sortOldestFirst(adjustedPolls)[Len(adjustedPolls)].day, args.endDate)

\* One iteration of the while loop
StepPollingAverages ==
    /\ pc = "window"
    /\ currentDate <= LoopEndDate
    /\ averages' = averagesAfterWindow(sortOldestFirst(adjustedPolls), averages, currentDate,
                                       args.timeSpanDays)
    /\ currentDate' = currentDate + args.stepDays
    /\ UNCHANGED <<polls, benchmarks, houseEffects, adjustedPolls, average, standings, pc, args>>

\* The loop ends and the averages are returned
ReturnPollingAverages ==
    /\ pc = "window"
    /\ currentDate > LoopEndDate
    /\ pc' = "series"
    /\ UNCHANGED <<polls, benchmarks, houseEffects, adjustedPolls, average, averages,
                   standings, currentDate, args>>

\* The caller averages the adjusted polls it holds once more
AverageAgain ==
    /\ pc \in {"averaged", "series"}
    /\ pc' = "adjusted"
    /\ UNCHANGED <<polls, benchmarks, houseEffects, adjustedPolls, average, averages, args, standings, currentDate>>

\* The caller drops its results and runs the pipeline again on its polls
StartOver ==
    /\ pc \in {"averaged", "series"}
    /\ pc' = "parsed"
    /\ benchmarks' = <<>>
    /\ houseEffects' = [h \in {} |-> 0]
    /\ adjustedPolls' = <<>>
    /\ average' = Null
    /\ averages' = <<>>
    /\ standings' = Null
    /\ currentDate' = 0
    /\ args' = NoArgs
    /\ UNCHANGED polls

\* Estimation and correction
Next ==
    \/ CalculateHouseEffects
    \/ CalculateTimeDecayedHouseEffects
    \/ SupplyHouseEffects
    \/ ApplyHouseEffects

Spec == Init /\ [][Next]_vars

InitWindow == InitWith(WindowInputs)

SpecWindow == InitWindow /\ [][Next]_vars

InitDecay == InitWith(DecayInputs)

SpecDecay == InitDecay /\ [][Next]_vars

\* Averaging: the caller holds adjusted polls, corrected with one of the effect
\* maps of AverageEffects, and asks for the current average
InitAverage ==
    /\ polls \in AveragePollInputs
    /\ benchmarks = <<>>
    /\ houseEffects \in AverageEffects
    /\ adjustedPolls = applyHouseEffects(polls, houseEffects)
    /\ average = Null
    /\ averages = <<>>
    /\ standings = Null
    /\ currentDate = 0
    /\ pc = "adjusted"
    /\ args = [NoArgs EXCEPT !.estimator = "manual"]

NextAverage == CalculateCurrentAverage

SpecAverage == InitAverage /\ [][NextAverage]_vars

\* Polls of two distant days, for the comparison of the orders of one input
MaxOrderedPolls == 3

OrderDays == {0, 56}

OrderInputs ==
    {s \in UNION {[1..n -> [house : Houses, day : OrderDays, parties : PartyMaps]] :
                    n \in 0..MaxOrderedPolls} : SortedByDate(s)}

InitOrder == InitWith(OrderInputs)

SpecOrder == InitOrder /\ [][Next]_vars

\* A caller that keeps calling: every operation of the engine, again and
\* again, on one short list of polls
MaxCallPolls == 2

CallDays == {0, 21}

CallInputs ==
    {s \in UNION {[1..n -> [house : Houses, day : CallDays, parties : PartyMaps]] :
                    n \in 0..MaxCallPolls} : SortedByDate(s)}

InitCalls == InitWith(CallInputs)

NextCalls ==
    \/ Next
    \/ CalculateCurrentAverage
    \/ CalculatePollingAverages
    \/ AverageAgain
    \/ StartOver

SpecCalls == InitCalls /\ [][NextCalls]_vars

\* The average of a single adjusted poll, for several lookbacks and half-lives
SingleLookbackDays == {7, DefaultLookbackDays, 30}

SingleHalfLives == {Num(3), Num(5), Num(DefaultHalfLife), Num(30), Infinity}

InitSingle ==
    /\ InitAverage
    /\ Len(polls) = 1

NextSingle == CalculateCurrentAverageWith(SingleLookbackDays, SingleHalfLives)

SpecSingle == InitSingle /\ [][NextSingle]_vars

\* Standings: adjusted polls whose estimates come out above, below and at
\* zero, missing and NaN
MaxStandingsPolls == 2

StandingsDays == {0, 21}

StandingsPartyMaps ==
    { [Ap |-> Num(25), Sp |-> Num(6)], [Ap |-> Num(4), Sp |-> Num(6)],
      [Ap |-> Num(2), Sp |-> Num(6)], [Sp |-> Num(6)] }

StandingsInputs ==
    {s \in UNION {[1..n -> [house : Houses, day : StandingsDays,
                            parties : StandingsPartyMaps]] :
                    n \in 0..MaxStandingsPolls} : SortedByDate(s)}

InitStandings ==
    /\ polls \in StandingsInputs
    /\ benchmarks = <<>>
    /\ houseEffects \in AverageEffects
    /\ adjustedPolls = applyHouseEffects(polls, houseEffects)
    /\ average = Null
    /\ averages = <<>>
    /\ standings = Null
    /\ currentDate = 0
    /\ pc = "adjusted"
    /\ args = [NoArgs EXCEPT !.estimator = "manual"]

NextStandings == GetCurrentStandings

SpecStandings == InitStandings /\ [][NextStandings]_vars

\* The benchmark alone, for several windows and minimums
NextBenchmark == CalculateBenchmarkForPoll

SpecBenchmark == Init /\ [][NextBenchmark]_vars

\* The time series: adjusted polls up to five weeks apart, so that windows
\* without polls occur
MaxSeriesPolls == 2

SeriesDays == {0, 14, 35}

SeriesPartyMaps == { [Ap |-> Num(25), Sp |-> Num(6)], [Sp |-> Num(6)] }

SeriesInputs ==
    {s \in UNION {[1..n -> [house : Houses, day : SeriesDays, parties : SeriesPartyMaps]] :
                    n \in 0..MaxSeriesPolls} : SortedByDate(s)}

InitSeries ==
    /\ polls \in SeriesInputs
    /\ benchmarks = <<>>
    /\ houseEffects \in AverageEffects
    /\ adjustedPolls = applyHouseEffects(polls, houseEffects)
    /\ average = Null
    /\ averages = <<>>
    /\ standings = Null
    /\ currentDate = 0
    /\ pc = "adjusted"
    /\ args = [NoArgs EXCEPT !.estimator = "manual"]

NextSeries ==
    \/ BeginPollingAverages
    \/ StepPollingAverages
    \/ ReturnPollingAverages

SpecSeries == InitSeries /\ [][NextSeries]_vars

\* What an iteration of the loop does to the window date
AdvanceWindowDate ==
    /\ pc = "window"
    /\ currentDate <= LoopEndDate
    /\ currentDate' = currentDate + args.stepDays

\* The loop is a sequential program that runs on: an iteration that is due
\* moves the window date, and a loop whose condition fails is left
SpecSeriesFair ==
    SpecSeries /\ WF_currentDate(AdvanceWindowDate) /\ WF_pc(ReturnPollingAverages)


(***************************************************************************)
(* Properties                                                              *)
(*                                                                         *)
(* Two numbers are equal when they are the same value (Object.is, the      *)
(* comparison of the tests' toBe), so NaN equals NaN.                      *)
(***************************************************************************)
\* The sum of f[x] over the finite set S
RECURSIVE SumOver(_, _)
SumOver(S, f) ==
    IF S = {} THEN Zero
    ELSE LET x == CHOOSE x \in S : TRUE
         IN  Add(f[x], SumOver(S \ {x}, f))

Applied == pc \in {"adjusted", "averaged"}

Estimated == pc = "effects" /\ args.estimator = "rolling"

\* The positions of the polls of a house
PollsOf(house) == {i \in 1..Len(polls) : polls[i].house = house}

\* C1: in every poll returned by applyHouseEffects, each category with an
\* entry in adjustments has adjustments[c] = -(the house effect of the poll's
\* source for c) and corrected value = originalParties[c] + adjustments[c].
C1_AdjustmentIsNegatedEffect ==
    Applied =>
        \A i \in 1..Len(adjustedPolls) :
            LET a == adjustedPolls[i]
            IN  \A c \in DOMAIN a.adjustments :
                    /\ a.house \in DOMAIN houseEffects
                    /\ c \in DOMAIN houseEffects[a.house].effect
                    /\ c \in DOMAIN a.originalParties
                    /\ a.adjustments[c] = Sub(Zero, houseEffects[a.house].effect[c])
                    /\ a.parties[c] = Add(a.originalParties[c], a.adjustments[c])

\* A poll has been adjusted by a non-zero number
C1_Witness ==
    /\ pc = "adjusted"
    /\ \E i \in 1..Len(adjustedPolls) :
        \E c \in DOMAIN adjustedPolls[i].adjustments :
            /\ ~isNaN(adjustedPolls[i].adjustments[c])
            /\ adjustedPolls[i].adjustments[c] # Zero
            /\ adjustedPolls[i].parties[c] # adjustedPolls[i].originalParties[c]

\* The categories the effect map holds for the source of polls[i]
KnownEffects(i) ==
    IF polls[i].house \in DOMAIN houseEffects
    THEN DOMAIN houseEffects[polls[i].house].effect
    ELSE {}

\* C2: a poll whose source has no entry in the effect map, or an entry without
\* effects, is passed through (empty adjustments, corrected values equal to the
\* original values); a category absent from the source's effects is copied
\* unchanged and has no adjustments entry.
C2_PassThrough ==
    Applied =>
        /\ Len(adjustedPolls) = Len(polls)
        /\ \A i \in 1..Len(polls) :
            LET a == adjustedPolls[i]
            IN  /\ KnownEffects(i) = {} =>
                    /\ DOMAIN a.adjustments = {}
                    /\ a.parties = polls[i].parties
                    /\ a.originalParties = polls[i].parties
                /\ \A c \in DOMAIN polls[i].parties \ KnownEffects(i) :
                    /\ c \in DOMAIN a.parties
                    /\ a.parties[c] = polls[i].parties[c]
                    /\ c \notin DOMAIN a.adjustments

\* A poll of a source without entry and a poll with a category that its
\* source's entry lacks have gone through applyHouseEffects
C2_Witness ==
    /\ pc = "adjusted"
    /\ \E i \in 1..Len(polls) :
        /\ polls[i].house \notin DOMAIN houseEffects
        /\ "Ap" \in DOMAIN polls[i].parties
    /\ \E j \in 1..Len(polls) :
        /\ polls[j].house \in DOMAIN houseEffects
        /\ KnownEffects(j) # {}
        /\ DOMAIN polls[j].parties \ KnownEffects(j) # {}

\* The polls of a house that have a deviation for category c: those that
\* report c and whose benchmark has c
WithDeviation(house, c) ==
    {i \in PollsOf(house) :
        /\ c \in DOMAIN polls[i].parties
        /\ benchmarks[i] # Null
        /\ c \in DOMAIN benchmarks[i]}

\* C3: calculateHouseEffects returns an entry for every source of the input,
\* with pollCount the number of the source's polls and, per category, the mean
\* of (value - benchmark) over the source's polls that have that deviation; a
\* category without deviation is absent.
C3_EffectIsMeanDeviation ==
    Estimated =>
        /\ DOMAIN houseEffects = {polls[i].house : i \in 1..Len(polls)}
        /\ \A h \in DOMAIN houseEffects :
            /\ houseEffects[h].pollCount = Cardinality(PollsOf(h))
            /\ DOMAIN houseEffects[h].effect = {c \in Parties : WithDeviation(h, c) # {}}
            /\ \A c \in DOMAIN houseEffects[h].effect :
                houseEffects[h].effect[c] =
                    Div(SumOver(WithDeviation(h, c),
                                [i \in WithDeviation(h, c) |->
                                    Sub(polls[i].parties[c], benchmarks[i][c])]),
                        Num(Cardinality(WithDeviation(h, c))))

\* A source with two polls, one of them without Ap, has a non-zero Ap effect
C3_Witness ==
    /\ Estimated
    /\ \E h \in DOMAIN houseEffects :
        /\ "Ap" \in DOMAIN houseEffects[h].effect
        /\ houseEffects[h].effect["Ap"] # Zero
        /\ Cardinality(PollsOf(h)) = 2
        /\ Cardinality(WithDeviation(h, "Ap")) = 1


\* The polls within w days of polls[i], polls[i] among them
Within(i, w) == {j \in 1..Len(polls) : Abs(polls[j].day - polls[i].day) <= w}

\* Those of the polls S that report a number for category c
Reporting(S, c) == {j \in S : c \in DOMAIN polls[j].parties /\ ~isNaN(polls[j].parties[c])}

\* The mean of the values reported for c by the polls S
MeanOf(S, c) ==
    Div(SumOver(Reporting(S, c), [j \in Reporting(S, c) |-> polls[j].parties[c]]),
        Num(Cardinality(Reporting(S, c))))

\* The map of the means of the polls S, over the categories some poll reports
MeansOf(S) == [c \in {c \in Parties : Reporting(S, c) # {}} |-> MeanOf(S, c)]

\* C4: a poll with fewer than 5 polls within 14 days and at least 5 within 28
\* days has the means of the polls within 28 days as its benchmark.
C4_WidensToFourWeeks ==
    Estimated =>
        \A i \in 1..Len(polls) :
            (/\ Cardinality(Within(i, 14)) < 5
             /\ Cardinality(Within(i, 28)) >= 5)
            => benchmarks[i] = MeansOf(Within(i, 28))

\* Such a poll, whose benchmark differs from the means of its 14-day window
C4_Witness ==
    /\ Estimated
    /\ \E i \in 1..Len(polls) :
        /\ Cardinality(Within(i, 14)) < 5
        /\ Cardinality(Within(i, 28)) >= 5
        /\ benchmarks[i] # MeansOf(Within(i, 14))


Decayed == pc = "effects" /\ args.estimator = "decayed"

\* Every poll reports every category
AllReported == \A i \in 1..Len(polls) : DOMAIN polls[i].parties = Parties

\* C5: with halfLifeDays = Infinity the time-decayed estimator returns, for
\* every source and category, the effect that calculateHouseEffects returns
\* (stated for inputs in which every poll reports every category).
C5_InfiniteHalfLifeReproducesRolling ==
    (Decayed /\ args.decayHalfLife = Infinity /\ AllReported) =>
        /\ DOMAIN houseEffects = DOMAIN calculateHouseEffects(polls)
        /\ \A h \in DOMAIN houseEffects :
            houseEffects[h].effect = calculateHouseEffects(polls)[h].effect

\* C6: a missing category value is skipped in every average: no effect that an
\* estimator returns for polls whose values are numbers or missing is NaN.
C6_MissingValuesNeverPropagate ==
    (Estimated \/ Decayed) =>
        \A h \in DOMAIN houseEffects :
            \A c \in DOMAIN houseEffects[h].effect : ~isNaN(houseEffects[h].effect[c])

\* C8: both estimators return the same sources and, per source, the same
\* categories with an effect.
C8_SameCategorySets ==
    Decayed =>
        /\ DOMAIN houseEffects = DOMAIN calculateHouseEffects(polls)
        /\ \A h \in DOMAIN houseEffects :
            DOMAIN houseEffects[h].effect = DOMAIN calculateHouseEffects(polls)[h].effect

\* The latest day of the input
LatestDay == CHOOSE d \in {polls[i].day : i \in 1..Len(polls)} :
                \A i \in 1..Len(polls) : polls[i].day <= d

AgeDays(i) == LatestDay - polls[i].day

RECURSIVE TwoToThe(_)
TwoToThe(k) == IF k = 0 THEN 1 ELSE 2 * TwoToThe(k - 1)

\* 0.5 ^ (ageDays / halfLifeDays) for a finite half-life that divides the age
RecencyWeight(i) == Rat(1, TwoToThe(AgeDays(i) \div args.decayHalfLife.n))

\* The polls the time-decayed benchmark of polls[i] averages: the others within
\* 21 days, or polls[i] alone
DecayReference(i) ==
    LET peers == Within(i, DefaultDecayWindowDays) \ {i}
    IN  IF peers = {} THEN {i} ELSE peers

DecayDeviation(i, c) == Sub(polls[i].parties[c], MeanOf(DecayReference(i), c))

\* House h has three polls, aged 0, 30 and 60 days, that deviate by +4, +2 and
\* +2 in category c
ScenarioOfHouse(h, c) ==
    /\ Cardinality(PollsOf(h)) = 3
    /\ \E i \in PollsOf(h) : AgeDays(i) = 0 /\ DecayDeviation(i, c) = Num(4)
    /\ \E i \in PollsOf(h) : AgeDays(i) = 30 /\ DecayDeviation(i, c) = Num(2)
    /\ \E i \in PollsOf(h) : AgeDays(i) = 60 /\ DecayDeviation(i, c) = Num(2)

\* C7: with a finite half-life each deviation weighs 0.5^(ageDays/halfLife),
\* ageDays counted from the latest poll of all sources; a source's effect is
\* sum(weight * deviation) / sum(weight).  With half-life 30 the ages 0, 30, 60
\* weigh 1, 1/2, 1/4, and deviations +4, +2, +2 give 5.5 / 1.75 = 22/7.
C7_DecayWeightedMean ==
    (Decayed /\ ~isInf(args.decayHalfLife)) =>
        \A h \in DOMAIN houseEffects :
            /\ houseEffects[h].totalWeight =
                   SumOver(PollsOf(h), [i \in PollsOf(h) |-> RecencyWeight(i)])
            /\ \A c \in Parties :
                /\ houseEffects[h].effect[c] =
                       Div(SumOver(PollsOf(h),
                                   [i \in PollsOf(h) |-> Mul(RecencyWeight(i), DecayDeviation(i, c))]),
                           SumOver(PollsOf(h), [i \in PollsOf(h) |-> RecencyWeight(i)]))
                /\ (args.decayHalfLife = Num(30) /\ ScenarioOfHouse(h, c)) =>
                       /\ houseEffects[h].totalWeight = Rat(7, 4)
                       /\ houseEffects[h].effect[c] = Rat(22, 7)

\* The scenario has been estimated with half-life 30
C7_Witness ==
    /\ Decayed
    /\ args.decayHalfLife = Num(30)
    /\ \E h \in DOMAIN houseEffects : ScenarioOfHouse(h, "Ap")


Averaged == pc = "averaged"

\* The as-of day: the latest day of the adjusted polls
AsOf == CHOOSE d \in {adjustedPolls[i].day : i \in 1..Len(adjustedPolls)} :
            \A i \in 1..Len(adjustedPolls) : adjustedPolls[i].day <= d

\* The adjusted polls inside the lookback window
Selected == {i \in 1..Len(adjustedPolls) : adjustedPolls[i].day >= AsOf - args.days}

\* The selected polls that hold a number for category c
Defining(c) ==
    {i \in Selected : c \in DOMAIN adjustedPolls[i].parties /\ ~isNaN(adjustedPolls[i].parties[c])}

\* The weight table of the aggregator, by age
TableWeight(i) ==
    LET age == AsOf - adjustedPolls[i].day
        linear == IF age >= args.days THEN Zero ELSE Rat(args.days - age, args.days)
    IN  CASE args.weighting = "none" -> Num(1)
          [] args.weighting = "linear" -> linear
          [] args.weighting = "exponential" ->
                IF isInf(args.halfLife) THEN Num(1)
                ELSE Rat(1, TwoToThe(age \div args.halfLife.n))
          [] args.weighting = "quadratic" -> Mul(linear, linear)

\* The selected polls hold exactly the Ap values 25, 27 and 23
ThreePollScenario ==
    /\ Cardinality(Selected) = 3
    /\ \A v \in {23, 25, 27} :
        \E i \in Selected : "Ap" \in DOMAIN adjustedPolls[i].parties
                            /\ adjustedPolls[i].parties["Ap"] = Num(v)

\* C9: the current average holds, for each category that a selected poll
\* defines and for no other, sum(value * weight) / sum(weight) over the selected
\* polls that define it; with weighting none that is their arithmetic mean, and
\* the Ap values 25, 27, 23 give 25.
C9_WeightedMeanOfDefined ==
    (Averaged /\ average # Null) =>
        /\ DOMAIN average.parties = {c \in Parties : Defining(c) # {}}
        /\ \A c \in DOMAIN average.parties :
            /\ average.parties[c] =
                   Div(SumOver(Defining(c),
                               [i \in Defining(c) |-> Mul(adjustedPolls[i].parties[c], TableWeight(i))]),
                       SumOver(Defining(c), [i \in Defining(c) |-> TableWeight(i)]))
            /\ args.weighting = "none" =>
                   average.parties[c] =
                       Div(SumOver(Defining(c), [i \in Defining(c) |-> adjustedPolls[i].parties[c]]),
                           Num(Cardinality(Defining(c))))
        /\ (args.weighting = "none" /\ ThreePollScenario) => average.parties["Ap"] = Num(25)

\* The three-poll scenario has been averaged without weighting
C9_Witness ==
    /\ Averaged
    /\ average # Null
    /\ args.weighting = "none"
    /\ ThreePollScenario

\* C10: every category of a current average has a positive sum of weights over
\* the polls that contribute to it.
C10_TotalWeightPositive ==
    (Averaged /\ average # Null) =>
        \A c \in DOMAIN average.parties :
            Less(Zero,
                 SumOver(Defining(c),
                         [i \in Defining(c) |->
                             calculateWeight(AsOf - adjustedPolls[i].day, args.weighting,
                                             args.days, args.halfLife)]))


\* C11: the current average is null exactly when no adjusted poll is given (or
\* none lies in the lookback window); otherwise it is dated at the latest poll
\* day and its pollCount is the number of polls dated at or after that day
\* minus the lookback days.
C11_NullOnlyWithoutPolls ==
    Averaged =>
        /\ average = Null <=> (Len(adjustedPolls) = 0 \/ Selected = {})
        /\ average # Null =>
            /\ average.parsedDate = AsOf
            /\ average.pollCount = Cardinality(Selected)
            /\ \A i \in 1..Len(adjustedPolls) :
                i \in Selected <=> AsOf - adjustedPolls[i].day <= args.days

\* An average over a window that ends exactly at a poll aged lookbackDays and
\* leaves an older poll out
C11_Witness ==
    /\ Averaged
    /\ average # Null
    /\ \E i, j \in 1..Len(adjustedPolls) :
        /\ AsOf - adjustedPolls[i].day = args.days
        /\ AsOf - adjustedPolls[j].day > args.days
    /\ average.pollCount = 2


\* The weight the aggregator gives to the selected poll i
WeightOf(i) ==
    calculateWeight(AsOf - adjustedPolls[i].day, args.weighting, args.days, args.halfLife)

\* The weights of the four schemes at ages 0, 7 and 14 with lookbackDays 14 and
\* halfLife 7
WeightTable ==
    [none |-> <<Num(1), Num(1), Num(1)>>,
     linear |-> <<Num(1), Rat(1, 2), Zero>>,
     exponential |-> <<Num(1), Rat(1, 2), Rat(1, 4)>>,
     quadratic |-> <<Num(1), Rat(1, 4), Zero>>]

\* C12: the weight of a selected poll of age a is 1 (none),
\* max(0, (lookbackDays - a) / lookbackDays) (linear), 0.5 ^ (a / halfLife)
\* (exponential) or the square of the linear weight (quadratic).
C12_WeightByAge ==
    (Averaged /\ average # Null) =>
        \A i \in Selected :
            /\ WeightOf(i) = TableWeight(i)
            /\ (args.days = 14 /\ args.halfLife = Num(7)) =>
                   WeightOf(i) = WeightTable[args.weighting][((AsOf - adjustedPolls[i].day) \div 7) + 1]

\* A week-old poll has been averaged with the quadratic scheme
C12_Witness ==
    /\ Averaged
    /\ average # Null
    /\ args.weighting = "quadratic"
    /\ \E i \in Selected : AsOf - adjustedPolls[i].day = 7 /\ WeightOf(i) = Rat(1, 4)


\* C13: the exponentially weighted average of a single poll holds, for every
\* category the poll has a number for, exactly that number, whatever the
\* half-life and the lookback.
C13_SinglePollIsItsOwnAverage ==
    (Averaged /\ args.weighting = "exponential" /\ Len(adjustedPolls) = 1) =>
        /\ average # Null
        /\ \A c \in DOMAIN adjustedPolls[1].parties :
            ~isNaN(adjustedPolls[1].parties[c]) =>
                /\ c \in DOMAIN average.parties
                /\ average.parties[c] = adjustedPolls[1].parties[c]

\* A single corrected poll has been averaged with an infinite half-life
C13_Witness ==
    /\ Averaged
    /\ args.weighting = "exponential"
    /\ args.halfLife = Infinity
    /\ Len(adjustedPolls) = 1
    /\ "Ap" \in DOMAIN adjustedPolls[1].adjustments
    /\ "Ap" \in DOMAIN average.parties
    /\ average.parties["Ap"] = Num(27)


\* C20: the houses of a current average are the houses of the selected polls,
\* each listed once, whichever categories their polls report.
C20_HousesOfSelectedPolls ==
    (Averaged /\ average # Null) =>
        /\ {average.houses[k] : k \in 1..Len(average.houses)} =
               {adjustedPolls[i].house : i \in Selected}
        /\ \A j, k \in 1..Len(average.houses) :
               j # k => average.houses[j] # average.houses[k]

\* Three selected polls of two houses, one house reporting no Ap at all
C20_Witness ==
    /\ Averaged
    /\ average # Null
    /\ Cardinality(Selected) = 3
    /\ Len(average.houses) = 2
    /\ \E h \in Houses :
        /\ \E i \in Selected : adjustedPolls[i].house = h
        /\ \A i \in Selected : adjustedPolls[i].house = h => "Ap" \notin DOMAIN adjustedPolls[i].parties


\* The orders in which n polls can be listed
Orders(n) ==
    {p \in [1..n -> 1..n] : \A i, j \in 1..n : i # j => p[i] # p[j]}

\* The polls listed in the order p
Reordered(p) == [i \in 1..Len(polls) |-> polls[p[i]]]

\* C14: the rolling estimator returns the same houses, poll counts and effects
\* for every order of the polls (the sums are exact here; a floating-point sum
\* may differ in its last digit between two orders).
C14_OrderIndependent ==
    Estimated =>
        \A p \in Orders(Len(polls)) :
            calculateHouseEffects(Reordered(p)) = houseEffects

\* Three polls, two of one house on different days with different Ap values
C14_Witness ==
    /\ Estimated
    /\ Len(polls) = 3
    /\ \E i, j \in 1..3 :
        /\ polls[i].house = polls[j].house
        /\ polls[i].day < polls[j].day
        /\ "Ap" \in DOMAIN polls[i].parties
        /\ "Ap" \in DOMAIN polls[j].parties
        /\ polls[i].parties["Ap"] # polls[j].parties["Ap"]
        /\ houseEffects[polls[i].house].pollCount = 2


\* The polls the rolling benchmark of polls[i] is taken from: those within 14
\* days, or 28, or 42, the first of these windows that holds 5 polls and the
\* widest one otherwise
BenchmarkSet(i) ==
    IF Cardinality(Within(i, 14)) >= 5 THEN Within(i, 14)
    ELSE IF Cardinality(Within(i, 28)) >= 5 THEN Within(i, 28)
    ELSE Within(i, 42)

\* C16: the rolling benchmark of a poll is null only if no poll lies within 42
\* days of it; otherwise it holds, for each category that a poll of the
\* selected window reports, the mean of the reported values, the window being
\* the poll itself and every poll at most the window's days before or after.
C16_BenchmarkIsWindowMean ==
    Estimated =>
        \A i \in 1..Len(polls) :
            /\ benchmarks[i] = Null => Within(i, 42) = {}
            /\ i \in BenchmarkSet(i)
            /\ benchmarks[i] = MeansOf(BenchmarkSet(i))

\* A poll whose benchmark includes a poll exactly 42 days away and a poll that
\* reports no Ap
C16_Witness ==
    /\ Estimated
    /\ \E i, j, k \in 1..Len(polls) :
        /\ polls[j].day - polls[i].day = 42
        /\ "Ap" \in DOMAIN polls[i].parties
        /\ "Ap" \in DOMAIN polls[j].parties
        /\ polls[i].parties["Ap"] # polls[j].parties["Ap"]
        /\ k \in Within(i, 42)
        /\ "Ap" \notin DOMAIN polls[k].parties
        /\ benchmarks[i]["Ap"] = Num(27)


\* Houses A and B both report Ap 25 on day 0; on day 30 A reports 29 and B 25
TwoHouseScenario ==
    /\ Len(polls) = 4
    /\ \A i \in 1..4 :
        /\ polls[i].house = (IF i % 2 = 1 THEN "A" ELSE "B")
        /\ polls[i].day = (IF i <= 2 THEN 0 ELSE 30)
        /\ polls[i].parties["Ap"] = Num(IF i = 3 THEN 29 ELSE 25)

\* C17 as stated: in the two-house scenario the rolling estimator gives A a
\* positive Ap effect and B an Ap effect of approximately zero (within 1/100).
C17_TwoHouseScenario ==
    (Estimated /\ TwoHouseScenario) =>
        /\ Less(Zero, houseEffects["A"].effect["Ap"])
        /\ Less(Rat(-1, 100), houseEffects["B"].effect["Ap"])
        /\ Less(houseEffects["B"].effect["Ap"], Rat(1, 100))

\* C17 as amended: in the two-house scenario the rolling estimator gives A the
\* Ap effect +1 and B the Ap effect -1: every benchmark is the mean 26 of all
\* four polls, so the two effects are opposite.
C17_TwoHouseScenarioAmended ==
    (Estimated /\ TwoHouseScenario) =>
        /\ \A i \in 1..4 : benchmarks[i]["Ap"] = Num(26)
        /\ houseEffects["A"].effect["Ap"] = Num(1)
        /\ houseEffects["B"].effect["Ap"] = Num(-1)

\* The rolling estimator has run on the two-house scenario
C17_Witness ==
    /\ Estimated
    /\ TwoHouseScenario
    /\ houseEffects["A"].pollCount = 2
    /\ houseEffects["B"].pollCount = 2

\* Every poll lies in the benchmark window of every poll
AllInEveryWindow == \A i, j \in 1..Len(polls) : j \in BenchmarkSet(i)

\* Every poll of house x reports more for c than every poll of house y
ReportsHigher(x, y, c) ==
    /\ PollsOf(x) # {}
    /\ PollsOf(y) # {}
    /\ \A i \in PollsOf(x) \cup PollsOf(y) : c \in DOMAIN polls[i].parties
    /\ \A i \in PollsOf(x), j \in PollsOf(y) : Less(polls[j].parties[c], polls[i].parties[c])

\* C18: when all polls of two houses lie in every poll's benchmark window and
\* every poll of the one reports more for a category than every poll of the
\* other, the one's effect for it is above zero and the other's below zero.
C18_ConsistentBias ==
    (Estimated /\ AllInEveryWindow) =>
        \A x, y \in Houses, c \in Parties :
            ReportsHigher(x, y, c) =>
                /\ Less(Zero, houseEffects[x].effect[c])
                /\ Less(houseEffects[y].effect[c], Zero)

\* Two polls of one house with Ap 29 and one of the other with Ap 25, on
\* different days inside one window
C18_Witness ==
    /\ Estimated
    /\ AllInEveryWindow
    /\ Len(polls) = 3
    /\ polls[1].day # polls[3].day
    /\ \E x, y \in Houses :
        /\ ReportsHigher(x, y, "Ap")
        /\ Cardinality(PollsOf(x)) = 2
        /\ houseEffects[x].effect["Ap"] = Rat(4, 3)
        /\ houseEffects[y].effect["Ap"] = Rat(-8, 3)


\* No other poll lies within the decay window of polls[i]
Alone(i) ==
    \A j \in 1..Len(polls) :
        j # i => Abs(polls[j].day - polls[i].day) > DefaultDecayWindowDays

\* C19: a poll with no other poll within the fixed 21-day window of the
\* time-decayed estimator is its own benchmark: its deviation is zero for
\* every category, and so is the effect of a house all of whose polls are alone.
C19_LonePollHasZeroDeviation ==
    Decayed =>
        /\ \A i \in 1..Len(polls) :
            Alone(i) =>
                \A c \in Parties :
                    calculatePollHouseEffect(i, polls, DefaultDecayWindowDays)[c] = Zero
        /\ \A h \in DOMAIN houseEffects :
            (\A i \in PollsOf(h) : Alone(i)) =>
                \A c \in Parties : houseEffects[h].effect[c] = Zero


C21_OrderPreserving ==
    Applied =>
        /\ Len(adjustedPolls) = Len(polls)
        /\ \A i \in 1..Len(polls) :
            /\ adjustedPolls[i].house = polls[i].house
            /\ adjustedPolls[i].day = polls[i].day
            /\ adjustedPolls[i].originalParties = polls[i].parties

\* Three polls that differ from each other have been corrected, one of them
\* with an adjustment
C21_Witness ==
    /\ Applied
    /\ Len(polls) = 3
    /\ polls[1] # polls[2]
    /\ polls[2] # polls[3]
    /\ polls[1] # polls[3]
    /\ \E i \in 1..3 : adjustedPolls[i].parties # polls[i].parties


\* getCurrentStandings has returned
Listed == pc = "standings"

\* What calculateCurrentAverage returns for the call that produced the standings
StandingsAverage ==
    calculateCurrentAverage(adjustedPolls, args.days, args.weighting, args.halfLife)

\* The categories whose current estimate is strictly positive
PositiveParties ==
    {c \in Parties : /\ c \in DOMAIN StandingsAverage.parties
                     /\ Less(Zero, StandingsAverage.parties[c])}

\* C22: getCurrentStandings returns null exactly when calculateCurrentAverage
\* does; otherwise it lists, once each and with their estimate, exactly the
\* categories whose estimate is strictly positive, and with sortByPercentage
\* the list is in non-increasing order of percentage.
C22_StandingsArePositiveAndSorted ==
    Listed =>
        /\ standings = Null <=> StandingsAverage = Null
        /\ standings # Null =>
            LET list == standings.standings
            IN  /\ {list[k].party : k \in 1..Len(list)} = PositiveParties
                /\ Len(list) = Cardinality(PositiveParties)
                /\ \A k \in 1..Len(list) :
                    list[k].percentage = StandingsAverage.parties[list[k].party]
                /\ args.sortByPercentage =>
                    \A k \in 1..(Len(list) - 1) :
                        ~Less(list[k].percentage, list[k + 1].percentage)

\* Sorted standings in which the second category of PARTY_NAMES comes first
C22_Witness ==
    /\ Listed
    /\ standings # Null
    /\ args.sortByPercentage
    /\ Len(standings.standings) = 2
    /\ standings.standings[1].party = "Sp"
    /\ Less(standings.standings[2].percentage, standings.standings[1].percentage)


\* calculatePollingAverages has returned
Returned == pc = "series"

EarliestDay == CHOOSE d \in {adjustedPolls[i].day : i \in 1..Len(adjustedPolls)} :
                \A i \in 1..Len(adjustedPolls) : d <= adjustedPolls[i].day

\* The adjusted polls dated from day - timeSpanDays to day
Covered(day) ==
    {i \in 1..Len(adjustedPolls) : /\ adjustedPolls[i].day >= day - args.timeSpanDays
                                   /\ adjustedPolls[i].day <= day}

\* Those of the adjusted polls S that hold a number for category c
Holding(S, c) ==
    {i \in S : c \in DOMAIN adjustedPolls[i].parties /\ ~isNaN(adjustedPolls[i].parties[c])}

\* The entry a is an average of exactly the adjusted polls S
AverageOver(a, S) ==
    /\ a.pollCount = Cardinality(S)
    /\ {a.houses[k] : k \in 1..Len(a.houses)} = {adjustedPolls[i].house : i \in S}
    /\ \A c \in Parties :
        Holding(S, c) # {} =>
            /\ c \in DOMAIN a.parties
            /\ a.parties[c] =
                 Div(SumOver(Holding(S, c), [i \in Holding(S, c) |-> adjustedPolls[i].parties[c]]),
                     Num(Cardinality(Holding(S, c))))

\* Every returned average is for a day of the grid, not after the latest poll
\* or the end date, and covers exactly the polls of its window
EveryAverageOnGrid ==
    \A n \in 1..Len(averages) :
        LET d == averages[n].parsedDate
        IN  /\ d >= EarliestDay + args.timeSpanDays
            /\ (d - EarliestDay - args.timeSpanDays) % args.stepDays = 0
            /\ d <= AsOf
            /\ d <= args.endDate
            /\ AverageOver(averages[n], Covered(d))
            /\ averages[n].pollCount >= 1

\* The original statement of C23: as C23_SeriesOnGrid, with an average
\* returned whenever the polls span at least timeSpanDays.
C23_SeriesOnGridAnyEndDate ==
    Returned =>
        /\ Len(adjustedPolls) = 0 => averages = <<>>
        /\ Len(adjustedPolls) > 0 =>
            /\ EveryAverageOnGrid
            /\ AsOf - EarliestDay >= args.timeSpanDays => Len(averages) >= 1

\* C23: calculatePollingAverages returns the empty list for no polls;
\* otherwise every average is for a day earliest + timeSpanDays + k * stepDays
\* (k >= 0) that is not after the latest poll nor after endDate, covers exactly
\* the polls dated in [d - timeSpanDays, d] and has pollCount >= 1; and if the
\* polls span at least timeSpanDays and endDate is not before earliest +
\* timeSpanDays, at least one average is returned.
C23_SeriesOnGrid ==
    Returned =>
        /\ Len(adjustedPolls) = 0 => averages = <<>>
        /\ Len(adjustedPolls) > 0 =>
            /\ EveryAverageOnGrid
            /\ (/\ AsOf - EarliestDay >= args.timeSpanDays
                /\ args.endDate >= EarliestDay + args.timeSpanDays) => Len(averages) >= 1

\* Two averages with a window without polls between them, the first over a
\* poll dated at the start of its window
C23_Witness ==
    /\ Returned
    /\ Len(averages) = 2
    /\ averages[2].parsedDate - averages[1].parsedDate > args.stepDays
    /\ \E i \in Covered(averages[1].parsedDate) :
        adjustedPolls[i].day = averages[1].parsedDate - args.timeSpanDays


\* The loop of calculatePollingAverages is running
InLoop == pc = "window"

\* floor((latest - earliest - timeSpanDays) / stepDays) + 1
WindowCount == ((AsOf - EarliestDay - args.timeSpanDays) \div args.stepDays) + 1

\* The original statement of C30: the call returns, and the number of
\* averages is at most floor((latest - earliest - timeSpanDays) / stepDays) + 1.
C30_TerminatesWithinWindowCount ==
    /\ InLoop ~> Returned
    /\ [](Returned /\ Len(adjustedPolls) > 0 => Len(averages) <= WindowCount)

\* C30: with stepDays > 0 calculatePollingAverages terminates: each iteration
\* moves the window date forward by stepDays, the loop is left, and the number
\* of averages returned is at most floor((latest - earliest - timeSpanDays) /
\* stepDays) + 1, or zero where that is negative.
C30_Terminates ==
    /\ InLoop ~> Returned
    /\ [][InLoop /\ InLoop' => /\ currentDate' = currentDate + args.stepDays
                               /\ currentDate' > currentDate]_vars
    /\ [](Returned /\ Len(adjustedPolls) > 0 =>
            Len(averages) <= IF WindowCount < 0 THEN 0 ELSE WindowCount)

\* The loop has run and returned as many averages as the bound allows, more
\* than one
C30_Witness ==
    /\ Returned
    /\ Len(adjustedPolls) > 0
    /\ Len(averages) = WindowCount
    /\ Len(averages) >= 2
    /\ currentDate > AsOf


\* calculateBenchmarkForPoll has returned for every poll
Benchmarked == pc = "benchmarked"

AllWithin(w) == \A i, j \in 1..Len(polls) : Abs(polls[i].day - polls[j].day) <= w

\* Every poll reports category c
AllReport(c) == \A i \in 1..Len(polls) : c \in DOMAIN polls[i].parties

\* C25: when every two polls lie within 14 days of each other and all report
\* category c, the effects of calculateHouseEffects for c, each multiplied by
\* the pollCount of its house, add up to zero; with a single house the effect
\* is zero for every category.
C25_ZeroSum ==
    (Estimated /\ AllWithin(DefaultWindowDays)) =>
        /\ \A c \in Parties :
            AllReport(c) =>
                /\ \A h \in DOMAIN houseEffects : c \in DOMAIN houseEffects[h].effect
                /\ SumOver(DOMAIN houseEffects,
                           [h \in DOMAIN houseEffects |->
                               Mul(Num(houseEffects[h].pollCount), houseEffects[h].effect[c])])
                     = Zero
        /\ Cardinality(DOMAIN houseEffects) = 1 =>
            \A h \in DOMAIN houseEffects :
                \A c \in DOMAIN houseEffects[h].effect : houseEffects[h].effect[c] = Zero

\* Two houses with effects that are not zero and cancel, one with two polls
C25_Witness ==
    /\ Estimated
    /\ AllWithin(DefaultWindowDays)
    /\ AllReport("Ap")
    /\ DOMAIN houseEffects = {"A", "B"}
    /\ houseEffects["A"].pollCount = 2
    /\ houseEffects["B"].pollCount = 1
    /\ Less(Zero, houseEffects["B"].effect["Ap"])
    /\ \E i, j \in PollsOf("A") : polls[i].parties["Ap"] # polls[j].parties["Ap"]


\* The polls have been corrected with the effects calculateHouseEffects
\* returned for them
CorrectedByRolling == pc = "adjusted" /\ args.estimator = "rolling"

\* The mean of the values of category c over a list of polls that all hold it
MeanValue(list, c) ==
    Div(reduceSum([i \in 1..Len(list) |-> list[i].parties[c]]), Num(Len(list)))

\* C26: when every two polls lie within 14 days of each other and all report
\* every category, calculateHouseEffects of the corrected polls returns the
\* effect 0 for every house and category, and the mean of the corrected values
\* of a category equals the mean of its raw values.
C26_CorrectionRemovesBias ==
    (CorrectedByRolling /\ AllWithin(DefaultWindowDays) /\ AllReported /\ Len(polls) > 0) =>
        LET again == calculateHouseEffects(adjustedPolls)
        IN  /\ DOMAIN again = DOMAIN houseEffects
            /\ \A h \in DOMAIN again, c \in Parties :
                /\ c \in DOMAIN again[h].effect
                /\ again[h].effect[c] = Zero
            /\ \A c \in Parties : MeanValue(adjustedPolls, c) = MeanValue(polls, c)

\* Three polls of two houses, corrected with effects that are not zero
C26_Witness ==
    /\ CorrectedByRolling
    /\ AllWithin(DefaultWindowDays)
    /\ AllReported
    /\ Len(polls) = 3
    /\ DOMAIN houseEffects = {"A", "B"}
    /\ houseEffects["A"].effect["Ap"] # Zero
    /\ \E i \in 1..3 : adjustedPolls[i].parties["Ap"] # polls[i].parties["Ap"]


\* The polls with the observation o added at its place by date
WithObservation(o) ==
    SelectSeq(polls, LAMBDA p : p.day <= o.day) \o <<o>> \o
    SelectSeq(polls, LAMBDA p : p.day > o.day)

\* The observation o is of another house than S and more than w days from
\* every poll of S
FarFrom(o, S, w) ==
    /\ o.house # S
    /\ \A i \in PollsOf(S) : Abs(o.day - polls[i].day) > w

\* C27: adding an observation of another house that is more than 42 days from
\* every poll of house S leaves the entry of S in calculateHouseEffects, its
\* pollCount and each of its effects, as it was.
C27_FarObservationLeavesHouseAlone ==
    Estimated =>
        \A o \in Observations, S \in DOMAIN houseEffects :
            FarFrom(o, S, MaxWindowDays) =>
                LET after == calculateHouseEffects(WithObservation(o))
                IN  /\ S \in DOMAIN after
                    /\ after[S] = houseEffects[S]

\* A house with an effect that is not zero and polls on day 0 only, to which
\* an observation of day 56 can be added
C27_Witness ==
    /\ Estimated
    /\ DOMAIN houseEffects = {"A", "B"}
    /\ "Ap" \in DOMAIN houseEffects["A"].effect
    /\ houseEffects["A"].effect["Ap"] # Zero
    /\ \A i \in PollsOf("A") : polls[i].day = 0
    /\ \E o \in Observations :
        /\ FarFrom(o, "A", MaxWindowDays)
        /\ calculateHouseEffects(WithObservation(o))["B"] # houseEffects["B"]


\* Observations newer than every poll: four weeks or thirty days after the
\* latest one
NewerObservations ==
    {[house |-> h, day |-> LatestDay + gap, parties |-> parties] :
        h \in Houses, gap \in {28, 30}, parties \in PartyMaps}

\* The entry of house S after the observation o has been added
DecayedWith(o, S) ==
    calculateTimeDecayedHouseEffects(WithObservation(o), args.decayHalfLife,
                                     DefaultDecayWindowDays)[S]

\* The original statement of C28: as C28_ReferenceCancels, with totalWeight
\* changed whatever the half-life.
C28_ReferenceCancelsAnyHalfLife ==
    Decayed =>
        \A o \in NewerObservations, S \in DOMAIN houseEffects :
            (FarFrom(o, S, DefaultDecayWindowDays)
                /\ DecayWeightsExact(WithObservation(o), args.decayHalfLife)) =>
                /\ DecayedWith(o, S).effect = houseEffects[S].effect
                /\ DecayedWith(o, S).pollCount = houseEffects[S].pollCount
                /\ DecayedWith(o, S).effectiveAge # houseEffects[S].effectiveAge
                /\ DecayedWith(o, S).totalWeight # houseEffects[S].totalWeight

\* C28: adding a newer observation of another house that is more than
\* windowDays from every poll of house S leaves the effects and the pollCount
\* of S as they were, and changes the effectiveAge of S and, when the
\* half-life is finite, the totalWeight of S.
C28_ReferenceCancels ==
    Decayed =>
        \A o \in NewerObservations, S \in DOMAIN houseEffects :
            (FarFrom(o, S, DefaultDecayWindowDays)
                /\ DecayWeightsExact(WithObservation(o), args.decayHalfLife)) =>
                /\ DecayedWith(o, S).effect = houseEffects[S].effect
                /\ DecayedWith(o, S).pollCount = houseEffects[S].pollCount
                /\ DecayedWith(o, S).effectiveAge # houseEffects[S].effectiveAge
                /\ args.decayHalfLife # Infinity =>
                    DecayedWith(o, S).totalWeight # houseEffects[S].totalWeight

\* A house with polls of two days and an effect that is not zero, a finite
\* half-life, and a newer observation of the other house to add
C28_Witness ==
    /\ Decayed
    /\ args.decayHalfLife = Num(DefaultDecayHalfLifeDays)
    /\ houseEffects["A"].pollCount = 2
    /\ houseEffects["A"].effect["Ap"] # Zero
    /\ \E o \in NewerObservations :
        /\ FarFrom(o, "A", DefaultDecayWindowDays)
        /\ DecayWeightsExact(WithObservation(o), args.decayHalfLife)
        /\ DecayedWith(o, "A").totalWeight # houseEffects["A"].totalWeight


\* The selected polls aged exactly lookbackDays
AtCutoff == {i \in Selected : AsOf - adjustedPolls[i].day = args.days}

\* The current average of the adjusted polls without the one at position i
AverageWithout(i) ==
    calculateCurrentAverage(SubSeq(adjustedPolls, 1, i - 1) \o
                            SubSeq(adjustedPolls, i + 1, Len(adjustedPolls)),
                            args.days, args.weighting, args.halfLife)

\* C29: a poll aged exactly lookbackDays is selected and, with linear or
\* quadratic weighting, weighs 0: it is counted in pollCount and houses, and
\* each category that a younger selected poll holds too has the value it has
\* without the poll.
C29_CutoffPollWeighsNothing ==
    (Averaged /\ average # Null /\ args.weighting \in {"linear", "quadratic"}) =>
        \A i \in AtCutoff :
            /\ WeightOf(i) = Zero
            /\ average.pollCount = Cardinality(Selected)
            /\ \E k \in 1..Len(average.houses) : average.houses[k] = adjustedPolls[i].house
            /\ \A c \in Parties :
                (\E j \in Defining(c) : adjustedPolls[j].day > adjustedPolls[i].day) =>
                    /\ AverageWithout(i) # Null
                    /\ average.pollCount = AverageWithout(i).pollCount + 1
                    /\ c \in DOMAIN average.parties
                    /\ c \in DOMAIN AverageWithout(i).parties
                    /\ average.parties[c] = AverageWithout(i).parties[c]

\* A poll at the cutoff whose house and Ap value no younger selected poll
\* shares, averaged with linear weighting
C29_Witness ==
    /\ Averaged
    /\ average # Null
    /\ args.weighting = "linear"
    /\ \E i \in AtCutoff, j \in Defining("Ap") :
        /\ i \in Defining("Ap")
        /\ adjustedPolls[j].day > adjustedPolls[i].day
        /\ adjustedPolls[j].parties["Ap"] # adjustedPolls[i].parties["Ap"]
        /\ \A k \in Selected \ {i} : adjustedPolls[k].house # adjustedPolls[i].house
        /\ average.parties["Ap"] = adjustedPolls[j].parties["Ap"]


====
